---------------------------- MODULE Spec2Model ----------------------------
(***************************************************************************)
(* Model of local_intersubject_pkg/intersubject.py: the ISC engine (isc),  *)
(* the within/between engine (wmb_isc), the segment iterator               *)
(* (isc_by_segment), triangle extraction (tri2vect) and the joblib worker  *)
(* pool the engines fan out to.                                            *)
(*                                                                         *)
(* Numbers.  A time sample is <<x>> (the integer x) or <<>> (NaN).  A      *)
(* result cell is a record [tag, num, args]:                               *)
(*   tag "nan"                      NaN                                     *)
(*   tag "r",  num = <<sgn, p, q>>  the correlation sgn * sqrt(p / q),     *)
(*                                   p / q in lowest terms (exact Pearson)  *)
(*   tag "sub", args = <<a, b>>     the difference a - b of two cells      *)
(*   tag "mean" / "median", args    the Fisher-Z summary of the cells args *)
(* An array is [shape, flat] as in numpy: flat holds the cells row-major.  *)
(***************************************************************************)
EXTENDS Integers, Sequences, FiniteSets, TLC

(***************************************************************************)
(* Bounds of the model.                                                    *)
(***************************************************************************)
MaxSubjects == 4
MaxRegions == 2
MaxTRs == 4
MaxSeed == 2
MaxN == 4
NCpus == 2

VARIABLES
    data,       \* the input tensor (time x region x subject) of the call
    call,       \* the call being made: operation and keyword arguments
    ret,        \* what the call gave its caller: an array or an exception
    pc,         \* position inside a stepwise operation
    seg_idx,    \* isc_by_segment: segments still to compute
    segment_isc,\* isc_by_segment: list of per-segment results
    calls,      \* isc_by_segment: per-segment ISC invocations made so far
    slots,      \* worker pool: result slot of each task, keyed by task index
    running,    \* worker pool: tasks a worker is executing
    arrival,    \* worker pool: task indices in completion order
    mtx         \* tri2vect: the square matrix

vars == <<data, call, ret, pc, seg_idx, segment_isc, calls, slots, running,
          arrival, mtx>>

-----------------------------------------------------------------------------
(***************************************************************************)
(* Cells and arithmetic.                                                   *)
(***************************************************************************)
NaN == [tag |-> "nan", num |-> <<>>, args |-> <<>>]

IsNaN(c) == c.tag = "nan"

Abs(x) == IF x < 0 THEN -x ELSE x

Sign(x) == IF x < 0 THEN -1 ELSE IF x = 0 THEN 0 ELSE 1

RECURSIVE GCD(_, _)
GCD(a, b) == IF b = 0 THEN a ELSE GCD(b, a % b)

RECURSIVE SumTo(_, _)
SumTo(f, n) == IF n = 0 THEN 0 ELSE f[n] + SumTo(f, n - 1)

\* A correlation cov / sqrt(vx * vy) as an exact cell; 0/0 is NaN.
RCell(cov, vx, vy) ==
    IF vx = 0 \/ vy = 0 THEN NaN
    ELSE LET c  == Abs(cov)
             g1 == GCD(c, vx)
             a1 == c \div g1
             x1 == vx \div g1
             g2 == GCD(a1, vy)
             a2 == a1 \div g2
             y1 == vy \div g2
             g3 == GCD(c, x1)
             b1 == c \div g3
             x2 == x1 \div g3
             g4 == GCD(b1, y1)
             b2 == b1 \div g4
             y2 == y1 \div g4
         IN  IF c = 0 THEN [tag |-> "r", num |-> <<0, 0, 1>>, args |-> <<>>]
             ELSE [tag |-> "r", num |-> <<Sign(cov), a2 * b2, x2 * y2>>,
                   args |-> <<>>]

\* Pearson correlation of two equally long series of samples.
Pearson(xs, ys) ==
    LET n == Len(xs)
    IN  IF \E t \in 1..n : xs[t] = <<>> \/ ys[t] = <<>> THEN NaN
        ELSE LET x   == [t \in 1..n |-> xs[t][1]]
                 y   == [t \in 1..n |-> ys[t][1]]
                 sx  == SumTo(x, n)
                 sy  == SumTo(y, n)
                 sxy == SumTo([t \in 1..n |-> x[t] * y[t]], n)
                 sxx == SumTo([t \in 1..n |-> x[t] * x[t]], n)
                 syy == SumTo([t \in 1..n |-> y[t] * y[t]], n)
             IN  RCell(n * sxy - sx * sy, n * sxx - sx * sx, n * syy - sy * sy)


-----------------------------------------------------------------------------
(***************************************************************************)
(* Tensors and arrays.  A tensor is [nT, nV, nS, sub]: sub[s][v] is the    *)
(* series (over time) of subject s at region v, so sub[s] is data[..., s]. *)
(***************************************************************************)
Tensor(nT, nV, nS, F(_, _, _)) ==
    [nT |-> nT, nV |-> nV, nS |-> nS,
     sub |-> [s \in 1..nS |-> [v \in 1..nV |-> [t \in 1..nT |-> F(t, v, s)]]]]

\* The array of shape (r, c) holding F(i, j) at row i, column j.
Arr2(r, c, F(_, _)) ==
    [shape |-> <<r, c>>,
     flat  |-> [k \in 1..(r * c) |-> F(((k - 1) \div c) + 1, ((k - 1) % c) + 1)]]

At2(a, i, j) == a.flat[(i - 1) * a.shape[2] + j]

NoArray == [shape |-> <<0>>, flat |-> <<>>]

Returned(a) == [kind |-> "ok", exc |-> "", arr |-> a]

Raised(e) == [kind |-> "raise", exc |-> e, arr |-> NoArray]

RECURSIVE Factorial(_)
Factorial(n) == IF n <= 1 THEN 1 ELSE n * Factorial(n - 1)

\* np.where(mask)[0]: the indices of the True entries, ascending.
Where(mask) == SelectSeq([i \in 1..Len(mask) |-> i], LAMBDA i : mask[i])

\* data[:, mask, :]: the retained regions, compacted, order preserved.
Compact(d, mask) ==
    LET keep == Where(mask)
    IN  [nT |-> d.nT, nV |-> Len(keep), nS |-> d.nS,
         sub |-> [s \in 1..d.nS |-> [j \in 1..Len(keep) |-> d.sub[s][keep[j]]]]]

\* np.delete(x, s, axis=2)
DeleteSubject(d, s) ==
    [nT |-> d.nT, nV |-> d.nV, nS |-> d.nS - 1,
     sub |-> [k \in 1..(d.nS - 1) |-> IF k < s THEN d.sub[k] ELSE d.sub[k + 1]]]

\* x[..., : n] and x[..., n :]
FirstSubjects(d, n) ==
    [nT |-> d.nT, nV |-> d.nV, nS |-> n, sub |-> SubSeq(d.sub, 1, n)]

LastSubjects(d, n) ==
    [nT |-> d.nT, nV |-> d.nV, nS |-> d.nS - n,
     sub |-> SubSeq(d.sub, n + 1, d.nS)]

\* data[start : end] on the time axis (0-based, end exclusive).
TimeSlice(d, start, end) ==
    [nT |-> end - start, nV |-> d.nV, nS |-> d.nS,
     sub |-> [s \in 1..d.nS |->
                [v \in 1..d.nV |-> SubSeq(d.sub[s][v], start + 1, end)]]]

\* mean(x, axis=2) with mean = np.nanmean (tolerate) or np.mean: one series
\* per region.  Every sample is scaled by the same factor nS!, which leaves
\* a correlation unchanged and keeps the arithmetic in the integers.
MeanOverSubjects(d, tolerate) ==
    LET F == Factorial(d.nS)
        Cell(v, t) ==
            LET present == {s \in 1..d.nS : d.sub[s][v][t] # <<>>}
                total   == SumTo([s \in 1..d.nS |->
                                    IF s \in present THEN d.sub[s][v][t][1]
                                    ELSE 0], d.nS)
                count   == Cardinality(present)
            IN  IF count = 0 THEN <<>>
                ELSE IF tolerate THEN <<total * (F \div count)>>
                ELSE IF count < d.nS THEN <<>>
                ELSE <<total * (F \div d.nS)>>
    IN  [v \in 1..d.nV |-> [t \in 1..d.nT |-> Cell(v, t)]]

(***************************************************************************)
(* The helpers of utils/bnk_funcs, which the package imports.              *)
(***************************************************************************)
\* array_correlation(x, y): column-wise Pearson, one value per region.
array_correlation(x, y) == [v \in 1..Len(x) |-> Pearson(x[v], y[v])]

\* _threshold_nans(data, tolerate_nans): the coverage mask over regions.
\* Without tolerance a region with any NaN is excluded; with tolerance a
\* region is excluded when no subject has a complete series there.
threshold_nans(d, tolerate) ==
    LET HasNaN(v, s) == \E t \in 1..d.nT : d.sub[s][v][t] = <<>>
    IN  [v \in 1..d.nV |->
            IF tolerate THEN \E s \in 1..d.nS : ~HasNaN(v, s)
            ELSE \A s \in 1..d.nS : ~HasNaN(v, s)]

\* compute_summary_statistic(iscs, summary_statistic, axis=0): per column
\* the Fisher-Z mean or median of the non-NaN entries, NaN if there is none.
compute_summary_statistic(a, stat) ==
    LET rows == a.shape[1]
        cols == a.shape[2]
        Col(j) == SelectSeq([i \in 1..rows |-> At2(a, i, j)],
                            LAMBDA c : ~IsNaN(c))
    IN  [shape |-> <<cols>>,
         flat  |-> [j \in 1..cols |->
                      IF Col(j) = <<>> THEN NaN
                      ELSE [tag |-> stat, num |-> <<>>, args |-> Col(j)]]]

-----------------------------------------------------------------------------
(***************************************************************************)
(* isc(data, pairwise, summary_statistic, tolerate_nans, n_jobs)           *)
(***************************************************************************)
Stats == {"none", "mean", "median"}

\* Mutant of EffectiveStat: the request is kept for two subjects.
EffectiveStatKept(n_subjects, summary_statistic) == summary_statistic

\* "No summary statistic if only two subjects"
EffectiveStat(n_subjects, summary_statistic) ==
    IF n_subjects = 2 THEN "none" ELSE summary_statistic

\* All positions (i, j) of an n x n matrix in row-major order.
RowMajor(n) == [p \in 1..(n * n) |-> <<((p - 1) \div n) + 1, ((p - 1) % n) + 1>>]

\* np.triu_indices(n, k) and np.tril_indices(n, k)
triu_indices(n, k) == SelectSeq(RowMajor(n), LAMBDA ij : ij[2] - ij[1] >= k)

tril_indices(n, k) == SelectSeq(RowMajor(n), LAMBDA ij : ij[2] - ij[1] <= k)

\* Mutant of squareform: the diagonal is taken too.
squareform_with_diagonal(M) ==
    LET idx == triu_indices(Len(M), 0)
    IN  [p \in 1..Len(idx) |-> M[idx[p][1]][idx[p][2]]]

\* squareform(M, checks=False) of a square matrix: its condensed vector.
squareform(M) ==
    LET idx == triu_indices(Len(M), 1)
    IN  [p \in 1..Len(idx) |-> M[idx[p][1]][idx[p][2]]]

\* np.corrcoef(x) of the rows x[1], x[2], ...
corrcoef(x) == [i \in 1..Len(x) |-> [j \in 1..Len(x) |-> Pearson(x[i], x[j])]]

\* pairwise_corr(data[:, v, :]) after the swap of axes: region v's vector
\* of subject-pair correlations.
pairwise_corr(d, v) == squareform(corrcoef([s \in 1..d.nS |-> d.sub[s][v]]))

\* loo_corr(x, s): subject s against the mean of the others, per region.
loo_corr(d, s, tolerate) ==
    array_correlation(d.sub[s], MeanOverSubjects(DeleteSubject(d, s), tolerate))

\* The independent units of work: one per region (pairwise), one per
\* subject (leave-one-out).
TaskCount(d, pairwise) == IF pairwise THEN d.nV ELSE d.nS

TaskResult(d, pairwise, tolerate, t) ==
    IF pairwise THEN pairwise_corr(d, t) ELSE loo_corr(d, t, tolerate)

\* The list the sequential loop builds: element t is the result of unit t.
SequentialResults(d, pairwise, tolerate) ==
    [t \in 1..TaskCount(d, pairwise) |-> TaskResult(d, pairwise, tolerate, t)]

\* np.column_stack(voxel_iscs): the vectors become columns; an empty list
\* raises ValueError (need at least one array to concatenate).
column_stack(list) ==
    IF Len(list) = 0 THEN Raised("ValueError")
    ELSE Returned(Arr2(Len(list[1]), Len(list), LAMBDA i, j : list[j][i]))

\* np.array(iscs_stack): the vectors of length width become rows.
array_of_rows(list, width) ==
    Returned(Arr2(Len(list), width, LAMBDA i, j : list[i][j]))

\* iscs_stack of the two-subject branch: one row.
TwoSubjectStack(d) ==
    LET r == array_correlation(d.sub[1], d.sub[2])
    IN  Returned(Arr2(1, d.nV, LAMBDA i, j : r[j]))

\* iscs_stack from the list of unit results (pairwise or leave-one-out).
StackResults(d, pairwise, list) ==
    IF pairwise THEN column_stack(list) ELSE array_of_rows(list, d.nV)

\* Mutant of Scatter: the compacted columns are written to the leading
\* columns instead of the retained regions' indices.
ScatterLeading(stack, mask, n_voxels) ==
    Arr2(stack.shape[1], n_voxels,
         LAMBDA i, j : IF j <= stack.shape[2] THEN At2(stack, i, j) ELSE NaN)

\* iscs = np.full((rows, n_voxels), nan); iscs[:, np.where(mask)[0]] = stack
Scatter(stack, mask, n_voxels) ==
    LET keep == Where(mask)
        Src(j) == CHOOSE k \in 1..Len(keep) : keep[k] = j
    IN  Arr2(stack.shape[1], n_voxels,
             LAMBDA i, j : IF mask[j] THEN At2(stack, i, Src(j)) ELSE NaN)

\* "Summarize results (if requested)": one row, with a new leading axis.
Summarize(iscs, summary_statistic) ==
    IF summary_statistic = "none" THEN iscs
    ELSE LET r == compute_summary_statistic(iscs, summary_statistic)
         IN  [shape |-> <<1>> \o r.shape, flat |-> r.flat]

\* "Throw away first dimension if singleton"
Squeeze(iscs) ==
    IF iscs.shape[1] = 1 THEN [shape |-> Tail(iscs.shape), flat |-> iscs.flat]
    ELSE iscs

\* isc from the mask onwards, given the list of unit results.
IscFinish(d, mask, stack, summary_statistic) ==
    IF stack.kind = "raise" THEN stack
    ELSE Returned(Squeeze(Summarize(Scatter(stack.arr, mask, d.nV),
                                    summary_statistic)))

IscFromResults(d, pairwise, summary_statistic, tolerate, list) ==
    LET mask == threshold_nans(d, tolerate)
        dc   == Compact(d, mask)
    IN  IscFinish(d, mask, StackResults(dc, pairwise, list),
                  EffectiveStat(d.nS, summary_statistic))

isc(d, pairwise, summary_statistic, tolerate) ==
    LET stat == EffectiveStat(d.nS, summary_statistic)
        mask == threshold_nans(d, tolerate)
        dc   == Compact(d, mask)
    IN  IF d.nS = 2 THEN IscFinish(d, mask, TwoSubjectStack(dc), stat)
        ELSE IscFinish(d, mask,
                       StackResults(dc, pairwise,
                                    SequentialResults(dc, pairwise, tolerate)),
                       stat)

-----------------------------------------------------------------------------
(***************************************************************************)
(* wmb_isc(d1, d2, subtract_wmb, summary_statistic, tolerate_nans, n_jobs) *)
(***************************************************************************)
\* np.append(d1, d2, axis=-1)
AppendSubjects(d1, d2) ==
    [nT |-> d1.nT, nV |-> d1.nV, nS |-> d1.nS + d2.nS, sub |-> d1.sub \o d2.sub]

\* one2avg_corr(x_i, y): one subject against the mean of the group y.
one2avg_corr(x_i, y, tolerate) ==
    array_correlation(x_i, MeanOverSubjects(y, tolerate))

\* w_iscs_stack: group d1's subjects, then group d2's, each against the
\* mean of the others of its own group.
WithinStack(g1, g2, tolerate) ==
    [i \in 1..(g1.nS + g2.nS) |->
        IF i <= g1.nS THEN loo_corr(g1, i, tolerate)
        ELSE loo_corr(g2, i - g1.nS, tolerate)]

\* Mutant of BetweenStack: the reference is the subject's own group.
BetweenStackOwnGroup(g1, g2, tolerate) ==
    [i \in 1..(g1.nS + g2.nS) |->
        IF i <= g1.nS THEN one2avg_corr(g1.sub[i], g1, tolerate)
        ELSE one2avg_corr(g2.sub[i - g1.nS], g2, tolerate)]

\* b_iscs_stack: each subject against the mean of data_tup[idx-1], the
\* other group.
BetweenStack(g1, g2, tolerate) ==
    [i \in 1..(g1.nS + g2.nS) |->
        IF i <= g1.nS THEN one2avg_corr(g1.sub[i], g2, tolerate)
        ELSE one2avg_corr(g2.sub[i - g1.nS], g1, tolerate)]

\* The shared mask and the two groups split back from the concatenation.
WmbMask(d1, d2, tolerate) == threshold_nans(AppendSubjects(d1, d2), tolerate)

WmbGroup1(d1, d2, tolerate) ==
    FirstSubjects(Compact(AppendSubjects(d1, d2), WmbMask(d1, d2, tolerate)),
                  d1.nS)

WmbGroup2(d1, d2, tolerate) ==
    LastSubjects(Compact(AppendSubjects(d1, d2), WmbMask(d1, d2, tolerate)),
                 d1.nS)

\* within_isc and between_isc: the stacks scattered through the mask.
within_isc(d1, d2, tolerate) ==
    LET g1 == WmbGroup1(d1, d2, tolerate)
        g2 == WmbGroup2(d1, d2, tolerate)
    IN  Scatter(array_of_rows(WithinStack(g1, g2, tolerate), g1.nV).arr,
                WmbMask(d1, d2, tolerate), d1.nV)

between_isc(d1, d2, tolerate) ==
    LET g1 == WmbGroup1(d1, d2, tolerate)
        g2 == WmbGroup2(d1, d2, tolerate)
    IN  Scatter(array_of_rows(BetweenStack(g1, g2, tolerate), g1.nV).arr,
                WmbMask(d1, d2, tolerate), d1.nV)

\* a - b of two cells, NaN if either is.
SubCell(a, b) ==
    IF IsNaN(a) \/ IsNaN(b) THEN NaN
    ELSE [tag |-> "sub", num |-> <<>>, args |-> <<a, b>>]

\* Mutant of Subtract: between minus within.
SubtractReversed(w, b) ==
    [shape |-> w.shape,
     flat  |-> [k \in 1..Len(w.flat) |-> SubCell(b.flat[k], w.flat[k])]]

\* within_isc - between_isc, elementwise.
Subtract(w, b) ==
    [shape |-> w.shape,
     flat  |-> [k \in 1..Len(w.flat) |-> SubCell(w.flat[k], b.flat[k])]]

\* np.array([within_isc, between_isc])
StackPair(w, b) == [shape |-> <<2>> \o w.shape, flat |-> w.flat \o b.flat]

\* "if summary_statistic:" reads the local iscs, which nothing has
\* assigned: the statement raises UnboundLocalError before the branch on
\* subtract_wmb is reached.
wmb_isc(d1, d2, subtract_wmb, summary_statistic, tolerate) ==
    LET w == within_isc(d1, d2, tolerate)
        b == between_isc(d1, d2, tolerate)
    IN  IF summary_statistic # "none" THEN Raised("UnboundLocalError")
        ELSE IF subtract_wmb THEN Returned(Subtract(w, b))
        ELSE Returned(StackPair(w, b))

-----------------------------------------------------------------------------
(***************************************************************************)
(* The inputs: tensors with nS subjects, nV regions and nT samples.  A     *)
(* region is "clean" (no NaN), "partial" (the first subject misses the     *)
(* first sample) or "dead" (NaN for every subject); the samples follow a   *)
(* seeded integer wave.                                                    *)
(***************************************************************************)
RegionKinds == {"clean", "partial", "dead"}

Wave(seed, t, v, s) == (t * (s + seed) + ((t * t * (s + v)) \div 2)) % 5

InputTensor(nT, nV, nS, rk, seed) ==
    Tensor(nT, nV, nS,
           LAMBDA t, v, s :
               IF rk[v] = "dead" THEN <<>>
               ELSE IF rk[v] = "partial" /\ s = 1 /\ t = 1 THEN <<>>
               ELSE <<Wave(seed, t, v, s)>>)

Inputs(nT) ==
    UNION {UNION {{InputTensor(nT, nV, nS, rk, seed) :
                        rk \in [1..nV -> RegionKinds], seed \in 0..MaxSeed} :
                  nV \in 1..MaxRegions} :
           nS \in 2..MaxSubjects}

NoTensor == [nT |-> 0, nV |-> 0, nS |-> 0, sub |-> <<>>]

NoCall == [op |-> "none", pairwise |-> FALSE, stat |-> "none",
           tolerate |-> TRUE, subtract |-> FALSE, nA |-> 0, n_jobs |-> 0,
           method |-> "", seg_trs |-> 0, upper |-> TRUE, n_trs |-> 0,
           seg_mask |-> <<>>, axis |-> 0, tri_func |-> "", path |-> ""]

NoRet == [kind |-> "none", exc |-> "", arr |-> NoArray]

(***************************************************************************)
(* Spec: one call of isc or wmb_isc on an input tensor.  For wmb_isc the   *)
(* first nA subjects are group d1 and the others group d2.                 *)
(***************************************************************************)
Init ==
    /\ data \in Inputs(MaxTRs)
    /\ call = NoCall
    /\ ret = NoRet
    /\ pc = "idle"
    /\ seg_idx = 0
    /\ segment_isc = <<>>
    /\ calls = 0
    /\ slots = <<>>
    /\ running = {}
    /\ arrival = <<>>
    /\ mtx = <<>>

CallIsc ==
    /\ pc = "idle"
    /\ \E pairwise \in BOOLEAN, stat \in Stats, tolerate \in BOOLEAN :
          /\ call' = [NoCall EXCEPT !.op = "isc", !.pairwise = pairwise,
                                    !.stat = stat, !.tolerate = tolerate]
          /\ ret' = isc(data, pairwise, stat, tolerate)
    /\ pc' = "returned"
    /\ UNCHANGED <<data, seg_idx, segment_isc, calls, slots, running,
                   arrival, mtx>>

CallWmbIsc ==
    /\ pc = "idle"
    /\ \E nA \in 1..(data.nS - 1), subtract \in BOOLEAN, stat \in Stats,
          tolerate \in BOOLEAN :
          /\ call' = [NoCall EXCEPT !.op = "wmb_isc", !.nA = nA,
                                    !.subtract = subtract, !.stat = stat,
                                    !.tolerate = tolerate]
          /\ ret' = wmb_isc(FirstSubjects(data, nA), LastSubjects(data, nA),
                            subtract, stat, tolerate)
    /\ pc' = "returned"
    /\ UNCHANGED <<data, seg_idx, segment_isc, calls, slots, running,
                   arrival, mtx>>

Next == CallIsc \/ CallWmbIsc

Spec == Init /\ [][Next]_vars

-----------------------------------------------------------------------------
(***************************************************************************)
(* Properties of isc and wmb_isc, checked under Spec.                      *)
(***************************************************************************)
IscCalled == pc = "returned" /\ call.op = "isc"

WmbCalled == pc = "returned" /\ call.op = "wmb_isc"

NPairs(n) == (n * (n - 1)) \div 2

\* The coverage mask of the call.
CallMask == threshold_nans(data, call.tolerate)

\* Rows and columns of a returned array, a 1-D array being one row.
Rows(a) == IF Len(a.shape) = 1 THEN 1 ELSE a.shape[1]

Cols(a) == a.shape[Len(a.shape)]

CellAt(a, i, j) == a.flat[(i - 1) * Cols(a) + j]

AllNaN(a) == \A k \in 1..Len(a.flat) : IsNaN(a.flat[k])

\* The shape the original statement gives for every subject count.
ClaimedShape ==
    IF call.pairwise THEN <<NPairs(data.nS), data.nV>>
    ELSE <<data.nS, data.nV>>

C2_TwoSubjectsIgnoreStat ==
    (IscCalled /\ data.nS = 2)
        => /\ ret.kind = "ok"
           /\ ret = isc(data, call.pairwise, "none", call.tolerate)
           /\ \A v \in 1..data.nV :
                 ret.arr.flat[v].tag \in {"nan", "r"}

C2_Witness ==
    /\ IscCalled /\ data.nS = 2 /\ call.stat = "mean"
    /\ \E v \in 1..data.nV : ret.arr.flat[v].tag = "r"

\* The tensor restricted to region v alone.
OnlyRegion(d, v) == Compact(d, [w \in 1..d.nV |-> w = v])

\* C3: in the output of isc without a summary statistic, an excluded
\* region holds NaN in every row and a retained region holds, at its own
\* index, the values computed for that region (those the same call gives on
\* the region alone).
C3_ScatterByMask ==
    (IscCalled /\ call.stat = "none" /\ ret.kind = "ok")
        => \A v \in 1..data.nV :
              LET alone == isc(OnlyRegion(data, v), call.pairwise, "none",
                               call.tolerate).arr
              IN  \A i \in 1..Rows(ret.arr) :
                     IF CallMask[v]
                     THEN CellAt(ret.arr, i, v) = CellAt(alone, i, 1)
                     ELSE IsNaN(CellAt(ret.arr, i, v))

C3_Witness ==
    /\ IscCalled /\ call.stat = "none" /\ ret.kind = "ok"
    /\ data.nS >= 3
    /\ \E v, w \in 1..data.nV :
          /\ v < w /\ ~CallMask[v] /\ CallMask[w]
          /\ ~IsNaN(CellAt(ret.arr, 1, w))

\* C4: when thresholding excludes every region, isc does not fail and
\* returns an all-NaN result of the full region width, in every mode.
C4_AllExcludedAllNaN ==
    (IscCalled /\ Where(CallMask) = <<>>)
        => /\ ret.kind = "ok"
           /\ Cols(ret.arr) = data.nV
           /\ AllNaN(ret.arr)

\* The groups of the wmb_isc call.
CallD1 == FirstSubjects(data, call.nA)

CallD2 == LastSubjects(data, call.nA)

\* C5: without a summary statistic, wmb_isc with subtraction returns,
\* element by element, the within array minus the between array of the
\* call without subtraction on the same input; both have nA + nB subject
\* rows and the full region width.
C5_SubtractIsWithinMinusBetween ==
    (WmbCalled /\ call.stat = "none")
        => LET pair == wmb_isc(CallD1, CallD2, FALSE, "none", call.tolerate)
               n    == data.nS * data.nV
           IN  /\ ret.kind = "ok" /\ pair.kind = "ok"
               /\ pair.arr.shape = <<2, data.nS, data.nV>>
               /\ ~call.subtract => ret = pair
               /\ call.subtract =>
                     /\ ret.arr.shape = <<data.nS, data.nV>>
                     /\ \A k \in 1..n :
                           ret.arr.flat[k] =
                               SubCell(pair.arr.flat[k], pair.arr.flat[n + k])

C5_Witness ==
    /\ WmbCalled /\ call.stat = "none" /\ call.subtract
    /\ call.nA >= 2 /\ data.nS - call.nA >= 2
    /\ \E k \in 1..Len(ret.arr.flat) : ret.arr.flat[k].tag = "sub"

\* C6: with subtraction and a summary statistic, wmb_isc returns the
\* within-minus-between array reduced across subjects by the summary
\* statistic, with a leading singleton dimension, and raises no error.
C6_SubtractSummaryReturns ==
    (WmbCalled /\ call.subtract /\ call.stat # "none")
        => /\ ret.kind = "ok"
           /\ ret.arr = Summarize(Subtract(within_isc(CallD1, CallD2,
                                                      call.tolerate),
                                           between_isc(CallD1, CallD2,
                                                       call.tolerate)),
                                  call.stat)
           /\ ret.arr.shape = <<1, data.nV>>

\* The subjects S of the tensor d, in ascending order, as a tensor.
SubjectsOf(d, S) ==
    LET seq == SelectSeq([i \in 1..d.nS |-> i], LAMBDA i : i \in S)
    IN  [nT |-> d.nT, nV |-> d.nV, nS |-> Len(seq),
         sub |-> [k \in 1..Len(seq) |-> d.sub[seq[k]]]]

\* The group (as subject indices of the concatenation) of subject i.
GroupOf(i) == IF i <= call.nA THEN 1..call.nA ELSE (call.nA + 1)..data.nS

\* Subject i at region v against the mean of the subjects S at region v.
AgainstMeanOf(i, v, S) ==
    Pearson(data.sub[i][v],
            MeanOverSubjects(SubjectsOf(data, S), call.tolerate)[v])

-----------------------------------------------------------------------------
(***************************************************************************)
(* isc_by_segment(data, seg_trs, method, summary_statistic, tolerate_nans, *)
(* subtract_wmb, n_jobs), step by step: the divisibility check, then one   *)
(* step per segment of the while loop, then the return.  For 'wmb' data is *)
(* the pair of groups [d1, d2].                                            *)
(***************************************************************************)
Methods == {"loo", "pairwise", "wmb"}

\* Mutant of SegmentsDivide: the group pair is not checked.
SegmentsDivideExceptWmb(method, n_TRs, seg_trs) ==
    seg_trs # 0 /\ (method = "wmb" \/ n_TRs % seg_trs = 0)

\* The asserts of the try block: the time length (of data, or of data[0]
\* for 'wmb') leaves no remainder; a zero seg_trs fails the modulo.
SegmentsDivide(method, n_TRs, seg_trs) == seg_trs # 0 /\ n_TRs % seg_trs = 0

\* isc_func: the partial application the method selects.  The partial for
\* 'wmb' binds subtract_wmb, tolerate_nans and n_jobs only.
isc_func(c, d) ==
    IF c.method = "loo" THEN isc(d, FALSE, c.stat, c.tolerate)
    ELSE IF c.method = "pairwise" THEN isc(d, TRUE, c.stat, c.tolerate)
    ELSE wmb_isc(FirstSubjects(d, c.nA), LastSubjects(d, c.nA), c.subtract,
                 "none", c.tolerate)

\* start and end of the segment computed when seg_idx segments are left.
SegStart(n_segments, idx, seg_trs) == (n_segments - idx) * seg_trs

SegEnd(n_segments, idx, seg_trs) == ((n_segments - idx) + 1) * seg_trs

\* np.array(segment_isc): the per-segment arrays on a new leading axis.
RECURSIVE FlatConcat(_)
FlatConcat(list) ==
    IF list = <<>> THEN <<>> ELSE Head(list).flat \o FlatConcat(Tail(list))

array_of_segments(list) ==
    [shape |-> <<Len(list)>> \o (IF list = <<>> THEN <<>> ELSE list[1].shape),
     flat  |-> FlatConcat(list)]

\* The inputs of SpecSeg: two subjects or MaxSubjects, MaxRegions regions.
SegInputs ==
    {InputTensor(MaxTRs, MaxRegions, nS, rk, 0) :
        rk \in [1..MaxRegions -> RegionKinds], nS \in {2, MaxSubjects}}

SegInit ==
    /\ data \in SegInputs
    /\ call = NoCall
    /\ ret = NoRet
    /\ pc = "idle"
    /\ seg_idx = 0
    /\ segment_isc = <<>>
    /\ calls = 0
    /\ slots = <<>>
    /\ running = {}
    /\ arrival = <<>>
    /\ mtx = <<>>

CallIscBySegment ==
    /\ pc = "idle"
    /\ \E method \in Methods, stat \in Stats, tolerate \in BOOLEAN,
          subtract \in BOOLEAN, nA \in {1, data.nS - 1},
          seg_trs \in 0..(data.nT + 1) :
          /\ method # "wmb" => (nA = 1 /\ ~subtract)
          /\ call' = [NoCall EXCEPT !.op = "isc_by_segment",
                                    !.method = method, !.stat = stat,
                                    !.tolerate = tolerate,
                                    !.subtract = subtract, !.nA = nA,
                                    !.seg_trs = seg_trs]
    /\ pc' = "check"
    /\ UNCHANGED <<data, ret, seg_idx, segment_isc, calls, slots, running,
                   arrival, mtx>>

\* The try block: on failure the except clause raises (a str is raised,
\* which is a TypeError); on success the loop is set up.
SegCheck ==
    /\ pc = "check"
    /\ IF SegmentsDivide(call.method, data.nT, call.seg_trs)
       THEN /\ seg_idx' = data.nT \div call.seg_trs
            /\ pc' = "loop"
            /\ ret' = ret
       ELSE /\ ret' = Raised("TypeError")
            /\ pc' = "returned"
            /\ seg_idx' = seg_idx
    /\ UNCHANGED <<data, call, segment_isc, calls, slots, running, arrival,
                   mtx>>

\* One iteration of "while seg_idx > 0"; an exception of the per-segment
\* call propagates to the caller.
SegStep ==
    /\ pc = "loop"
    /\ seg_idx > 0
    /\ LET n_segments == data.nT \div call.seg_trs
           start == SegStart(n_segments, seg_idx, call.seg_trs)
           end   == SegEnd(n_segments, seg_idx, call.seg_trs)
           r     == isc_func(call, TimeSlice(data, start, end))
       IN  /\ calls' = calls + 1
           /\ IF r.kind = "ok"
              THEN /\ segment_isc' = Append(segment_isc, r.arr)
                   /\ seg_idx' = seg_idx - 1
                   /\ UNCHANGED <<ret, pc>>
              ELSE /\ ret' = r
                   /\ pc' = "returned"
                   /\ UNCHANGED <<segment_isc, seg_idx>>
    /\ UNCHANGED <<data, call, slots, running, arrival, mtx>>

SegReturn ==
    /\ pc = "loop"
    /\ seg_idx = 0
    /\ ret' = Returned(array_of_segments(segment_isc))
    /\ pc' = "returned"
    /\ UNCHANGED <<data, call, seg_idx, segment_isc, calls, slots, running,
                   arrival, mtx>>

SegNext == CallIscBySegment \/ SegCheck \/ SegStep \/ SegReturn

SpecSeg == SegInit /\ [][SegNext]_vars

-----------------------------------------------------------------------------
(***************************************************************************)
(* Properties of isc_by_segment, checked under SpecSeg.                    *)
(***************************************************************************)
SegCalled == call.op = "isc_by_segment"

Divisible == call.seg_trs # 0 /\ data.nT % call.seg_trs = 0

\* A direct call of the selected variant, with the options of the
\* isc_by_segment call, on the tensor d.
DirectCall(c, d) ==
    IF c.method = "loo" THEN isc(d, FALSE, c.stat, c.tolerate)
    ELSE IF c.method = "pairwise" THEN isc(d, TRUE, c.stat, c.tolerate)
    ELSE wmb_isc(FirstSubjects(d, c.nA), LastSubjects(d, c.nA), c.subtract,
                 c.stat, c.tolerate)

\* Entry i (from 0) of an array along its leading axis.
LeadingEntry(a, i) ==
    LET size == Len(a.flat) \div a.shape[1]
    IN  [shape |-> Tail(a.shape),
         flat  |-> SubSeq(a.flat, i * size + 1, (i + 1) * size)]

\* C7: when seg_trs divides the time length into k segments, the result of
\* isc_by_segment has leading length k and entry i is the result of a
\* direct call of the selected variant, with the same summary_statistic,
\* tolerate_nans and subtract options, on the time slice
\* [i*seg_trs, (i+1)*seg_trs), for i = 0..k-1 in increasing time order.
C7_SegmentsMatchDirectCalls ==
    (SegCalled /\ pc = "returned" /\ Divisible /\ ret.kind = "ok")
        => LET k == data.nT \div call.seg_trs
           IN  /\ ret.arr.shape[1] = k
               /\ \A i \in 0..(k - 1) :
                     LET direct == DirectCall(call,
                                      TimeSlice(data, i * call.seg_trs,
                                                (i + 1) * call.seg_trs))
                     IN  /\ direct.kind = "ok"
                         /\ LeadingEntry(ret.arr, i) = direct.arr

\* C8: when seg_trs does not divide the time length (of the tensor, or of
\* the group pair for 'wmb'), isc_by_segment raises to its caller before
\* any per-segment computation is invoked and returns no partial result.
C8_NonDivisibleRaises ==
    (SegCalled /\ ~Divisible)
        => /\ pc \in {"check", "returned"}
           /\ calls = 0
           /\ segment_isc = <<>>
           /\ pc = "returned" => (ret.kind = "raise" /\ ret.arr = NoArray)

C8_Witness ==
    /\ SegCalled /\ call.method = "wmb"
    /\ call.seg_trs > 1 /\ call.seg_trs < data.nT /\ ~Divisible
    /\ pc = "returned" /\ ret.kind = "raise" /\ calls = 0

-----------------------------------------------------------------------------
(***************************************************************************)
(* tri2vect(mtx, upper, sort_idx=None, k=None) on a symmetric matrix.      *)
(***************************************************************************)
\* "if k is None": the default diagonal offset.
DefaultK(upper) == IF upper THEN 1 ELSE -1

\* trifunc(mtx.shape[0]): the positions taken, in the order taken.
TriIndices(n, upper, k) ==
    IF upper THEN triu_indices(n, k) ELSE tril_indices(n, k)

tri2vect(m, upper) ==
    LET idx == TriIndices(Len(m), upper, DefaultK(upper))
    IN  [shape |-> <<Len(idx)>>,
         flat  |-> [p \in 1..Len(idx) |-> m[idx[p][1]][idx[p][2]]]]

\* The unordered pairs {i, j} of 1..n.
PairSet(n) == {ij \in (1..n) \X (1..n) : ij[1] < ij[2]}

\* The symmetric n x n matrix with f at the off-diagonal entries and 2 on
\* the diagonal.
SymmetricMatrix(n, f) ==
    [i \in 1..n |-> [j \in 1..n |->
        IF i = j THEN 2 ELSE IF i < j THEN f[<<i, j>>] ELSE f[<<j, i>>]]]

TriInputs ==
    UNION {{SymmetricMatrix(n, f) : f \in [PairSet(n) -> {0, 1}]} : n \in 2..MaxN}

TriInit ==
    /\ mtx \in TriInputs
    /\ data = NoTensor
    /\ call = NoCall
    /\ ret = NoRet
    /\ pc = "idle"
    /\ seg_idx = 0
    /\ segment_isc = <<>>
    /\ calls = 0
    /\ slots = <<>>
    /\ running = {}
    /\ arrival = <<>>

CallTri2Vect ==
    /\ pc = "idle"
    /\ \E upper \in BOOLEAN :
          /\ call' = [NoCall EXCEPT !.op = "tri2vect", !.upper = upper]
          /\ ret' = Returned(tri2vect(mtx, upper))
    /\ pc' = "returned"
    /\ UNCHANGED <<data, seg_idx, segment_isc, calls, slots, running,
                   arrival, mtx>>

TriNext == CallTri2Vect

SpecTri == TriInit /\ [][TriNext]_vars

\* The pairwise-ISC enumeration of the unordered pairs of 1..n: i < j,
\* i ascending outer, j ascending inner.
RECURSIVE PairsFrom(_, _, _)
PairsFrom(i, j, n) ==
    IF i >= n THEN <<>>
    ELSE IF j > n THEN PairsFrom(i + 1, i + 2, n)
    ELSE <<<<i, j>>>> \o PairsFrom(i, j + 1, n)

EnumPairs(n) == PairsFrom(1, 2, n)

\* C9: for an n x n symmetric matrix tri2vect with the default offset
\* returns n*(n-1)/2 entries, none from the diagonal, the p-th being the
\* value of the p-th unordered pair of the pairwise-ISC enumeration, for
\* upper=True and for upper=False and every n.
C9_TriangleInPairOrder ==
    (pc = "returned" /\ call.op = "tri2vect")
        => LET n   == Len(mtx)
               idx == TriIndices(n, call.upper, DefaultK(call.upper))
           IN  /\ ret.kind = "ok"
               /\ Len(ret.arr.flat) = NPairs(n)
               /\ \A p \in 1..Len(idx) : idx[p][1] # idx[p][2]
               /\ \A p \in 1..NPairs(n) :
                     ret.arr.flat[p] = mtx[EnumPairs(n)[p][1]][EnumPairs(n)[p][2]]

-----------------------------------------------------------------------------
(***************************************************************************)
(* The fan-out of isc over its independent units of work, step by step.    *)
(* n_jobs is None (written 0), 1, 2 or -1.  One branch of each mode hands  *)
(* the units to joblib's Parallel(n_jobs), the other runs a plain loop:    *)
(* Parallel starts the units in index order on its workers, lets them      *)
(* finish in any order and returns the list of results in index order; the *)
(* loop runs one unit at a time and appends each result as it is made.     *)
(***************************************************************************)
NJobs == {0, 1, 2, -1}

\* Which branch runs Parallel: "if n_jobs in (1, None)" in pairwise mode,
\* "if n_jobs not in (1, None)" in leave-one-out mode.
UsesParallel(pairwise, n_jobs) ==
    IF pairwise THEN n_jobs \in {0, 1} ELSE n_jobs \notin {0, 1}

\* The workers executing units at the same time: those of Parallel(n_jobs)
\* (None and 1 give one, -1 one per processor), one for the plain loop.
Workers(pairwise, n_jobs) ==
    IF ~UsesParallel(pairwise, n_jobs) THEN 1
    ELSE IF n_jobs \in {0, 1} THEN 1
    ELSE IF n_jobs = -1 THEN NCpus
    ELSE n_jobs

\* Mutant of ParallelResults: the results in completion order.
ParallelResultsByArrival(s, order) == [i \in 1..Len(order) |-> s[order[i]].val]

\* The list Parallel returns: element t is the result of unit t.
ParallelResults(s, order) == [t \in 1..Len(s) |-> s[t].val]

\* The list the loop appends to, in the order the units ran.
LoopResults(s, order) == [i \in 1..Len(order) |-> s[order[i]].val]

EmptySlot == [done |-> FALSE, val |-> <<>>]

\* The compacted tensor the units of the call read.
PoolData == Compact(data, threshold_nans(data, call.tolerate))

\* The inputs of SpecPool: MaxSubjects subjects, MaxRegions regions, each
\* region clean or dead.
PoolInputs ==
    {InputTensor(MaxTRs, MaxRegions, MaxSubjects, rk, 0) :
        rk \in [1..MaxRegions -> {"clean", "dead"}]}

PoolInit ==
    /\ data \in PoolInputs
    /\ call = NoCall
    /\ ret = NoRet
    /\ pc = "idle"
    /\ seg_idx = 0
    /\ segment_isc = <<>>
    /\ calls = 0
    /\ slots = <<>>
    /\ running = {}
    /\ arrival = <<>>
    /\ mtx = <<>>

\* isc up to the fan-out: the mask is applied, the n_jobs test of the mode
\* selects the branch (path) and the units are laid out.
CallIscFanOut ==
    /\ pc = "idle"
    /\ \E pairwise \in BOOLEAN, stat \in {"none", "mean"},
          tolerate \in BOOLEAN, n_jobs \in NJobs :
          /\ call' = [NoCall EXCEPT !.op = "isc", !.pairwise = pairwise,
                                    !.stat = stat, !.tolerate = tolerate,
                                    !.n_jobs = n_jobs,
                                    !.path = IF UsesParallel(pairwise, n_jobs)
                                             THEN "Parallel" ELSE "loop"]
          /\ slots' = [t \in 1..TaskCount(Compact(data,
                                              threshold_nans(data, tolerate)),
                                          pairwise) |-> EmptySlot]
    /\ pc' = "units"
    /\ running' = {}
    /\ arrival' = <<>>
    /\ UNCHANGED <<data, ret, seg_idx, segment_isc, calls, mtx>>

\* A free worker takes the next unit, in index order.
StartTask ==
    /\ pc = "units"
    /\ Cardinality(running) < Workers(call.pairwise, call.n_jobs)
    /\ \E t \in 1..Len(slots) :
          /\ ~slots[t].done /\ t \notin running
          /\ \A u \in 1..(t - 1) : slots[u].done \/ u \in running
          /\ running' = running \cup {t}
    /\ UNCHANGED <<data, call, ret, pc, seg_idx, segment_isc, calls, slots,
                   arrival, mtx>>

\* A running unit finishes: it has read the shared tensor and its result
\* goes to the slot of its index.
FinishTask ==
    /\ pc = "units"
    /\ \E t \in running :
          /\ slots' = [slots EXCEPT ![t] =
                          [done |-> TRUE,
                           val  |-> TaskResult(PoolData, call.pairwise,
                                               call.tolerate, t)]]
          /\ running' = running \ {t}
          /\ arrival' = Append(arrival, t)
    /\ UNCHANGED <<data, call, ret, pc, seg_idx, segment_isc, calls, mtx>>

\* Every unit is done: the list is stacked, scattered, summarised and
\* returned.
Gather ==
    /\ pc = "units"
    /\ \A t \in 1..Len(slots) : slots[t].done
    /\ LET list == IF UsesParallel(call.pairwise, call.n_jobs)
                   THEN ParallelResults(slots, arrival)
                   ELSE LoopResults(slots, arrival)
       IN  ret' = IscFromResults(data, call.pairwise, call.stat,
                                 call.tolerate, list)
    /\ pc' = "returned"
    /\ UNCHANGED <<data, call, seg_idx, segment_isc, calls, slots, running,
                   arrival, mtx>>

PoolNext == CallIscFanOut \/ StartTask \/ FinishTask \/ Gather

SpecPool == PoolInit /\ [][PoolNext]_vars

\* The units finished in index order.
InOrder(order) == \A i \in 1..Len(order) : order[i] = i

\* C10: the result row (leave-one-out) or column (pairwise) at index t is
\* the result of unit t whatever order the units complete in: every filled
\* slot t holds the result of unit t computed from the unchanged input, and
\* for every n_jobs and every interleaving the output is that of the
\* strictly sequential execution.
C10_OutputIndependentOfCompletionOrder ==
    (call.op = "isc" /\ pc \in {"units", "returned"})
        => LET pd == PoolData
           IN  /\ \A t \in 1..Len(slots) :
                     slots[t].done =>
                         slots[t].val = TaskResult(pd, call.pairwise,
                                                   call.tolerate, t)
               /\ pc = "returned" =>
                     ret = isc(data, call.pairwise, call.stat, call.tolerate)

C10_Witness ==
    /\ call.op = "isc" /\ pc = "returned" /\ ret.kind = "ok"
    /\ ~call.pairwise /\ call.stat = "none"
    /\ ~InOrder(arrival)
    /\ \E k \in 1..Len(ret.arr.flat) : ~IsNaN(ret.arr.flat[k])

\* C15: in isc, n_jobs = None (or 1) runs the units in the plain
\* sequential loop and any other n_jobs dispatches them to the parallel
\* worker pool with that degree of parallelism, the same in leave-one-out
\* mode and in pairwise mode.
C15_SamePathInBothModes ==
    (call.op = "isc" /\ pc \in {"units", "returned"})
        => /\ call.path = "loop" <=> call.n_jobs \in {0, 1}
           /\ call.path = "loop" => Cardinality(running) <= 1
           /\ call.path = "Parallel" =>
                 Cardinality(running) <=
                     (IF call.n_jobs = -1 THEN NCpus ELSE call.n_jobs)

-----------------------------------------------------------------------------
(***************************************************************************)
(* tr_mask_from_segments(n_trs, seg_mask) and filter_segment_trs(data,     *)
(* seg_mask, axis).  Here data is an array of one to three dimensions,     *)
(* [shape, flat] with the integers 1, 2, ... as its elements in row-major  *)
(* order, so that every element of a result names the place it came from.  *)
(***************************************************************************)
MaxAxisLen == 4
MaxSegs == 3

\* The number of elements of an array of the given shape.
RECURSIVE Prod(_)
Prod(shape) == IF shape = <<>> THEN 1 ELSE Head(shape) * Prod(Tail(shape))

\* The stride of dimension d (from 1) of a row-major array.
Stride(shape, d) == Prod(SubSeq(shape, d + 1, Len(shape)))

\* The multi-index (0-based components) of the flat position p (0-based).
Unravel(p, shape) ==
    [d \in 1..Len(shape) |-> (p \div Stride(shape, d)) % shape[d]]

\* The flat position (0-based) of a multi-index.
Ravel(idx, shape) ==
    SumTo([d \in 1..Len(shape) |-> idx[d] * Stride(shape, d)], Len(shape))

\* The for loop of tr_mask_from_segments from segment i (from 1) on: the
\* slice [seg_size_trs*(i-1), seg_size_trs*i) of a True segment is set.
RECURSIVE MaskLoop(_, _, _, _)
MaskLoop(tr_mask, seg_mask, i, seg_size_trs) ==
    IF i > Len(seg_mask) THEN tr_mask
    ELSE MaskLoop(IF seg_mask[i]
                  THEN [t \in 1..Len(tr_mask) |->
                           IF /\ seg_size_trs * (i - 1) < t
                              /\ t <= seg_size_trs * i
                           THEN TRUE ELSE tr_mask[t]]
                  ELSE tr_mask,
                  seg_mask, i + 1, seg_size_trs)

\* Mutant of SegmentsOfMask: the remainder is not looked at.
SegmentsOfMaskUnchecked(n, seg_mask) ==
    IF Len(seg_mask) = 0 THEN "ZeroDivisionError" ELSE "ok"

\* "assert n % len(seg_mask) == 0": an empty mask fails the modulo itself.
SegmentsOfMask(n, seg_mask) ==
    IF Len(seg_mask) = 0 THEN "ZeroDivisionError"
    ELSE IF n % Len(seg_mask) # 0 THEN "AssertionError"
    ELSE "ok"

tr_mask_from_segments(n_trs, seg_mask) ==
    LET check == SegmentsOfMask(n_trs, seg_mask)
    IN  IF check # "ok" THEN Raised(check)
        ELSE Returned([shape |-> <<n_trs>>,
                       flat  |-> MaskLoop([t \in 1..n_trs |-> FALSE], seg_mask,
                                          1, n_trs \div Len(seg_mask))])

\* np.take(a, (indices,), axis): the index is the one-element tuple that
\* np.where returns, an array of shape (1, k), so the axis is replaced by
\* the two axes (1, k).  indices are 0-based, axis is 0-based.
take(a, indices, axis) ==
    LET out == SubSeq(a.shape, 1, axis) \o <<1, Len(indices)>>
               \o SubSeq(a.shape, axis + 2, Len(a.shape))
        Src(p) ==
            LET o == Unravel(p, out)
            IN  Ravel(SubSeq(o, 1, axis) \o <<indices[o[axis + 2] + 1]>>
                      \o SubSeq(o, axis + 3, Len(o)), a.shape)
    IN  [shape |-> out,
         flat  |-> [p \in 1..Prod(out) |-> a.flat[Src(p - 1) + 1]]]

\* np.squeeze(a): every axis of length one is removed.
squeeze(a) ==
    [shape |-> SelectSeq(a.shape, LAMBDA n : n # 1), flat |-> a.flat]

filter_segment_trs(d, seg_mask, axis) ==
    LET check == SegmentsOfMask(d.shape[axis + 1], seg_mask)
        tr_mask == tr_mask_from_segments(d.shape[axis + 1], seg_mask).arr.flat
        tr_indices == [j \in 1..Len(Where(tr_mask)) |-> Where(tr_mask)[j] - 1]
    IN  IF check # "ok" THEN Raised(check)
        ELSE Returned(squeeze(take(d, tr_indices, axis)))

\* The arrays of the given shape, and the shapes and masks drawn.
ArrayOfShape(shape) == [shape |-> shape, flat |-> [k \in 1..Prod(shape) |-> k]]

Shapes ==
    UNION {[1..n -> 1..MaxAxisLen] : n \in 1..3}

SegMasks == UNION {[1..n -> BOOLEAN] : n \in 0..MaxSegs}

MaskInit ==
    /\ data \in {ArrayOfShape(sh) : sh \in Shapes}
    /\ call = NoCall
    /\ ret = NoRet
    /\ pc = "idle"
    /\ seg_idx = 0
    /\ segment_isc = <<>>
    /\ calls = 0
    /\ slots = <<>>
    /\ running = {}
    /\ arrival = <<>>
    /\ mtx = <<>>

\* tr_mask_from_segments on the length of the leading axis of data, or on
\* one more than it.
CallTrMaskFromSegments ==
    /\ pc = "idle"
    /\ \E n_trs \in {data.shape[1], data.shape[1] + 1}, seg_mask \in SegMasks :
          /\ call' = [NoCall EXCEPT !.op = "tr_mask_from_segments",
                                    !.n_trs = n_trs, !.seg_mask = seg_mask]
          /\ ret' = tr_mask_from_segments(n_trs, seg_mask)
    /\ pc' = "returned"
    /\ UNCHANGED <<data, seg_idx, segment_isc, calls, slots, running,
                   arrival, mtx>>

CallFilterSegmentTrs ==
    /\ pc = "idle"
    /\ \E axis \in 0..(Len(data.shape) - 1), seg_mask \in SegMasks :
          /\ call' = [NoCall EXCEPT !.op = "filter_segment_trs",
                                    !.axis = axis, !.seg_mask = seg_mask]
          /\ ret' = filter_segment_trs(data, seg_mask, axis)
    /\ pc' = "returned"
    /\ UNCHANGED <<data, seg_idx, segment_isc, calls, slots, running,
                   arrival, mtx>>

MaskNext == CallTrMaskFromSegments \/ CallFilterSegmentTrs

SpecMask == MaskInit /\ [][MaskNext]_vars

(***************************************************************************)
(* Properties of the segment-mask helpers, checked under SpecMask.         *)
(***************************************************************************)
MaskCalled == pc = "returned" /\ call.op = "tr_mask_from_segments"

FilterCalled == pc = "returned" /\ call.op = "filter_segment_trs"

\* The number of True segments of a segment mask.
TrueSegments(seg_mask) == Len(Where(seg_mask))

\* The length n divides evenly into the segments of the mask.
Divides(n, seg_mask) == Len(seg_mask) # 0 /\ n % Len(seg_mask) = 0

\* The samples (0-based, ascending) of the True segments, by the rule
\* "sample t belongs to segment t div (n / len(seg_mask))".
SamplesOfTrueSegments(n, seg_mask) ==
    LET size == n \div Len(seg_mask)
    IN  SelectSeq([t \in 1..n |-> t - 1],
                  LAMBDA t : seg_mask[(t \div size) + 1])

\* C11: tr_mask_from_segments(n_trs, seg_mask) returns a boolean vector of
\* length n_trs in which sample t is True exactly when
\* seg_mask[t div (n_trs / len(seg_mask))] is True; when n_trs is not
\* divisible by len(seg_mask) it raises and returns no mask.
C11_MaskExpandsSegments ==
    MaskCalled
        => IF Divides(call.n_trs, call.seg_mask)
           THEN /\ ret.kind = "ok"
                /\ ret.arr.shape = <<call.n_trs>>
                /\ Len(ret.arr.flat) = call.n_trs
                /\ \A t \in 0..(call.n_trs - 1) :
                      ret.arr.flat[t + 1] =
                          call.seg_mask[(t \div (call.n_trs
                                                   \div Len(call.seg_mask))) + 1]
           ELSE /\ ret.kind = "raise"
                /\ ret.arr = NoArray

C11_Witness ==
    /\ MaskCalled /\ ret.kind = "ok"
    /\ Len(call.seg_mask) >= 2
    /\ call.n_trs >= 2 * Len(call.seg_mask)
    /\ call.seg_mask[1] /\ ~call.seg_mask[2]
    /\ ret.arr.flat[2] /\ ~ret.arr.flat[3]

\* C13: filter_segment_trs(data, seg_mask, axis) returns an array with the
\* number of dimensions of data, in which the chosen axis holds exactly the
\* samples of the True segments in their original order (segment size times
\* the number of True segments of them) and every other axis is unchanged,
\* also when one sample is selected or another axis has length one.
C13_FilterKeepsDimensions ==
    (FilterCalled /\ Divides(data.shape[call.axis + 1], call.seg_mask))
        => LET n     == data.shape[call.axis + 1]
               sel   == SamplesOfTrueSegments(n, call.seg_mask)
               shape == [data.shape EXCEPT ![call.axis + 1] = Len(sel)]
           IN  /\ ret.kind = "ok"
               /\ Len(sel) = (n \div Len(call.seg_mask))
                                 * TrueSegments(call.seg_mask)
               /\ Len(ret.arr.shape) = Len(data.shape)
               /\ ret.arr.shape = shape
               /\ \A p \in 0..(Prod(shape) - 1) :
                     LET o == Unravel(p, shape)
                     IN  ret.arr.flat[p + 1] =
                             data.flat[Ravel([o EXCEPT ![call.axis + 1] =
                                                           sel[@ + 1]],
                                             data.shape) + 1]

-----------------------------------------------------------------------------
(***************************************************************************)
(* finn_isrsa(data, pwise_behav, tri_func, n_jobs): the pairwise ISC of    *)
(* the tensor is computed by isc and the behavioral matrix pwise_behav is  *)
(* given.  spearmanr and pearsonr are library functions: an application    *)
(* is the cell [tag, num, args] with the function's name as tag, the       *)
(* region's pair vector as args and the behavioral pair vector as num.     *)
(***************************************************************************)
TriFuncs == {"spearman", "pearson"}

\* tri_func(x1, x2)
TriFunc(tri_func, x1, x2) == [tag |-> tri_func, num |-> x2, args |-> x1]

\* pwise_isc[:, node_i], node_i from 1.
Column(pwise_isc, node_i) ==
    [p \in 1..pwise_isc.shape[1] |-> At2(pwise_isc, p, node_i)]

\* Parallel(n_jobs)(delayed(tri_func)(...) for node_i in range(...)) with
\* n_jobs 1 or None: the nodes run one at a time and the list holds the
\* result of node_i at index node_i.
IsrsaParallel(pwise_isc, pwise_behav, tri_func) ==
    [node_i \in 1..pwise_isc.shape[2] |->
        TriFunc(tri_func, Column(pwise_isc, node_i), pwise_behav)]

\* Mutant of IsrsaLoop: each result is put in front of the list.
RECURSIVE IsrsaLoopPrepending(_, _, _, _, _)
IsrsaLoopPrepending(pwise_isc, pwise_behav, tri_func, node_i, isrsa_by_node) ==
    IF node_i > pwise_isc.shape[2] THEN isrsa_by_node
    ELSE IsrsaLoopPrepending(pwise_isc, pwise_behav, tri_func, node_i + 1,
             <<TriFunc(tri_func, Column(pwise_isc, node_i), pwise_behav)>>
                 \o isrsa_by_node)

\* The for loop of the else branch from node_i on, appending to the list.
RECURSIVE IsrsaLoop(_, _, _, _, _)
IsrsaLoop(pwise_isc, pwise_behav, tri_func, node_i, isrsa_by_node) ==
    IF node_i > pwise_isc.shape[2] THEN isrsa_by_node
    ELSE IsrsaLoop(pwise_isc, pwise_behav, tri_func, node_i + 1,
             Append(isrsa_by_node,
                    TriFunc(tri_func, Column(pwise_isc, node_i), pwise_behav)))

\* np.array(isrsa_by_node)
array_of_nodes(list) == [shape |-> <<Len(list)>>, flat |-> list]

\* An exception of isc propagates; a one-dimensional pwise_isc (two
\* subjects) has no shape[1].
finn_isrsa(d, pwise_behav, tri_func, n_jobs) ==
    LET pwise_isc == isc(d, TRUE, "none", TRUE)
        behav     == tri2vect(pwise_behav, TRUE).flat
    IN  IF pwise_isc.kind = "raise" THEN pwise_isc
        ELSE IF Len(pwise_isc.arr.shape) < 2 THEN Raised("IndexError")
        ELSE IF n_jobs \in {0, 1}
        THEN Returned(array_of_nodes(
                 IsrsaParallel(pwise_isc.arr, behav, tri_func)))
        ELSE Returned(array_of_nodes(
                 IsrsaLoop(pwise_isc.arr, behav, tri_func, 1, <<>>)))

\* The behavioral matrices: symmetric, zero diagonal, a different value
\* for every pair of subjects.
BehavMatrix(n, seed) ==
    [i \in 1..n |-> [j \in 1..n |->
        IF i = j THEN 0
        ELSE IF i < j THEN 10 * i + j + seed ELSE 10 * j + i + seed]]

\* The inputs of SpecRsa: 2..MaxSubjects subjects, MaxRegions regions.
RsaInputs ==
    {InputTensor(MaxTRs, MaxRegions, nS, rk, 0) :
        rk \in [1..MaxRegions -> RegionKinds], nS \in 2..MaxSubjects}

RsaInit ==
    /\ data \in RsaInputs
    /\ mtx \in {BehavMatrix(data.nS, seed) : seed \in 0..MaxSeed}
    /\ call = NoCall
    /\ ret = NoRet
    /\ pc = "idle"
    /\ seg_idx = 0
    /\ segment_isc = <<>>
    /\ calls = 0
    /\ slots = <<>>
    /\ running = {}
    /\ arrival = <<>>

CallFinnIsrsa ==
    /\ pc = "idle"
    /\ \E tri_func \in TriFuncs, n_jobs \in NJobs :
          /\ call' = [NoCall EXCEPT !.op = "finn_isrsa",
                                    !.tri_func = tri_func, !.n_jobs = n_jobs]
          /\ ret' = finn_isrsa(data, mtx, tri_func, n_jobs)
    /\ pc' = "returned"
    /\ UNCHANGED <<data, seg_idx, segment_isc, calls, slots, running,
                   arrival, mtx>>

RsaNext == CallFinnIsrsa

SpecRsa == RsaInit /\ [][RsaNext]_vars

RsaCalled == pc = "returned" /\ call.op = "finn_isrsa"

\* The pairwise ISC of the tensor is a (pairs x regions) matrix: three or
\* more subjects and a region retained by the mask (tolerate_nans=True).
PairMatrixExists ==
    data.nS >= 3 /\ Where(threshold_nans(data, TRUE)) # <<>>

\* The correlation of the p-th pair of subjects at region r, NaN at an
\* excluded region.
PairCorrelation(p, r) ==
    IF threshold_nans(data, TRUE)[r]
    THEN Pearson(data.sub[EnumPairs(data.nS)[p][1]][r],
                 data.sub[EnumPairs(data.nS)[p][2]][r])
    ELSE NaN

\* C14: finn_isrsa returns one value per region, in region order: entry r
\* is the comparison function selected by name ('spearman' or 'pearson')
\* applied to column r of the (pairs x regions) pairwise-ISC matrix and to
\* the strictly-upper-triangle vector of the behavioral matrix, and the
\* result is the same for every n_jobs.
C14_OneValuePerRegion ==
    (RsaCalled /\ PairMatrixExists)
        => LET pairs == EnumPairs(data.nS)
               upper == [p \in 1..Len(pairs) |-> mtx[pairs[p][1]][pairs[p][2]]]
           IN  /\ ret.kind = "ok"
               /\ ret.arr.shape = <<data.nV>>
               /\ \A r \in 1..data.nV :
                     /\ ret.arr.flat[r].tag = call.tri_func
                     /\ ret.arr.flat[r].num = upper
                     /\ ret.arr.flat[r].args =
                            [p \in 1..Len(pairs) |-> PairCorrelation(p, r)]
               /\ \A n_jobs \in NJobs :
                     finn_isrsa(data, mtx, call.tri_func, n_jobs) = ret

C14_Witness ==
    /\ RsaCalled /\ PairMatrixExists /\ ret.kind = "ok"
    /\ data.nS = MaxSubjects
    /\ call.n_jobs = -1 /\ call.tri_func = "spearman"
    /\ ret.arr.flat[1] # ret.arr.flat[MaxRegions]
    /\ \A r \in {1, MaxRegions} : \A p \in 1..NPairs(data.nS) :
          ~IsNaN(ret.arr.flat[r].args[p])

=============================================================================
